---- MODULE Spec2Model ----
(***************************************************************************)
(* A model of awsrastools.py (class AwsRasTools): the resource registry    *)
(* of a HEC-RAS project file (copy_*_from_template, number allocation),    *)
(* the plan-file core-count rule (set_num_cores) and the fixed-width table *)
(* codec of unsteady flow files (identify_tables, parse_fixed_width_table, *)
(* scale_flow_hydrograph, write_table_to_file).                            *)
(*                                                                         *)
(* Text is modelled as sequences of one-character strings wherever the     *)
(* code works on characters (identifiers, table lines).  A line of the     *)
(* project file is a record [key, num]: the text                           *)
(* "<key>=<letter><num as %02d>" followed by a newline, as HEC-RAS and the *)
(* program write it; lines with the keys "Proj Title" and "Other" carry no *)
(* number (num = 0).  The copy operations work on these records, which is  *)
(* what their patterns read from each line; ptext holds the same file as   *)
(* the text on disk, line by line with the newlines, which need not end in *)
(* a newline.                                                              *)
(***************************************************************************)
EXTENDS Integers, Sequences, FiniteSets, TLC

VARIABLES
    prj,               \* the project file: its sequence of lines
    prjBefore,         \* the project file as the last operation read it
    files,             \* the resource files of the project folder
    ret,               \* what the last registry operation returned or raised
    ncopies,           \* number of copy operations made so far
    ptext,             \* the project file on disk: its lines as text
    ptextBefore,       \* the text the last operation read
    existing_numbers,  \* argument of get_next_available_number
    next_available,    \* its result
    plan,              \* a plan file: its sequence of lines
    planBefore,        \* the plan file as the last operation read it
    num_cores,         \* argument of the last set_num_cores, -1 before it
    ulines,            \* an unsteady flow file: its sequence of lines
    ulines0,           \* the unsteady flow file at the start
    tables,            \* the dictionary extract_tables returned
    extents,           \* the list identify_tables returned
    original_values,   \* second result of scale_flow_hydrograph
    cstep,             \* the codec caller's position and last call
    max_workers,       \* argument of run_plans_parallel
    cores_per_run,     \* argument of run_plans_parallel
    project_folder,    \* the plan file of each row of ras_plan_entries
    test_folders,      \* the copies of the project folder, one per worker
    futures,           \* the run of each row: its state, folder and solver
    results,           \* the dictionary run_plans_parallel fills
    rpc                \* the position of run_plans_parallel

vars == <<prj, prjBefore, files, ret, ncopies, ptext, ptextBefore,
          existing_numbers, next_available,
          plan, planBefore, num_cores, ulines, ulines0, tables, extents,
          original_values, cstep,
          max_workers, cores_per_run, project_folder, test_folders, futures,
          results, rpc>>

regVars   == <<prj, prjBefore, files, ret, ncopies, ptext, ptextBefore>>
allocVars == <<existing_numbers, next_available>>
planVars  == <<plan, planBefore, num_cores>>
codecVars == <<ulines, ulines0, tables, extents, original_values, cstep>>
runVars   == <<max_workers, cores_per_run, project_folder, test_folders, futures,
               results, rpc>>

-----------------------------------------------------------------------------
(* Bounds of the model *)

\* initial project files have at most this many lines
MaxLines == 2
\* project files in the initial states use the numbers 1..MaxNum and MaxSlot
MaxNum == 3
\* at most this many copy operations in one behaviour
MaxCopies == 2

(* Program constants *)

\* "from 01 to 99": the highest resource number
MaxSlot == 99
\* new_shortid[:24]
ShortIdMax == 24

-----------------------------------------------------------------------------
(* Characters, numbers and their text *)

DigitChars == <<"0", "1", "2", "3", "4", "5", "6", "7", "8", "9">>

IsDigit(c) == \E i \in 1..10 : DigitChars[i] = c

DigitVal(c) == (CHOOSE i \in 1..10 : DigitChars[i] = c) - 1

\* str(n) for n >= 0
RECURSIVE Decimal(_)
Decimal(n) ==
    IF n < 10 THEN <<DigitChars[n + 1]>>
    ELSE Decimal(n \div 10) \o <<DigitChars[(n % 10) + 1]>>

\* int(s) for a non-empty string of digits
RECURSIVE IntOfDigits(_)
IntOfDigits(s) ==
    IF Len(s) = 0 THEN 0
    ELSE 10 * IntOfDigits(SubSeq(s, 1, Len(s) - 1)) + DigitVal(s[Len(s)])

\* f"{n:02d}" for n >= 0
Fmt02(n) == IF n < 10 THEN <<"0">> \o Decimal(n) ELSE Decimal(n)

\* max(numbers) of a non-empty sequence
SeqMax(s) == CHOOSE m \in {s[i] : i \in 1..Len(s)} : \A i \in 1..Len(s) : s[i] <= m

\* list.insert(i, x), i counted from 0; an index past the end appends
ListInsert(lines, i, x) ==
    LET k == IF i > Len(lines) THEN Len(lines) ELSE i
    IN  SubSeq(lines, 1, k) \o <<x>> \o SubSeq(lines, k + 1, Len(lines))

-----------------------------------------------------------------------------
(* The project file *)

HeaderKeys == {"Proj Title", "Current Plan", "Default Exp/Contr", "English Units"}

RefKeys == {"Geom File", "Unsteady File", "Plan File"}

Letter(key) ==
    CASE key = "Geom File" -> "g"
      [] key = "Unsteady File" -> "u"
      [] key = "Plan File" -> "p"
      [] key = "Flow File" -> "f"

RefLine(key, n) == [key |-> key, num |-> n]

\* re.compile(r'^<key>=<letter>(\d+)', re.IGNORECASE).match(line.strip())
PatternMatch(line, key) == line.key = key

\* the indices (from 1) of the lines the pattern of a kind matches
MatchIndices(lines, key) == {i \in 1..Len(lines) : PatternMatch(lines[i], key)}

\* the list of int(match.group(1)) over the lines, in file order
RECURSIVE MatchedNumbers(_, _)
MatchedNumbers(lines, key) ==
    IF Len(lines) = 0 THEN <<>>
    ELSE MatchedNumbers(SubSeq(lines, 1, Len(lines) - 1), key)
         \o (IF PatternMatch(lines[Len(lines)], key)
             THEN <<lines[Len(lines)].num>> ELSE <<>>)

\* re.findall(r'Plan File=p(\d+)', project_content)
RECURSIVE FindallPlanNumbers(_)
FindallPlanNumbers(lines) ==
    IF Len(lines) = 0 THEN <<>>
    ELSE FindallPlanNumbers(SubSeq(lines, 1, Len(lines) - 1))
         \o (IF lines[Len(lines)].key = "Plan File"
             THEN <<lines[Len(lines)].num>> ELSE <<>>)

-----------------------------------------------------------------------------
(* The project file as text *)

KeyChars(key) ==
    CASE key = "Geom File" -> <<"G", "e", "o", "m", " ", "F", "i", "l", "e">>
      [] key = "Unsteady File" -> <<"U", "n", "s", "t", "e", "a", "d", "y", " ", "F", "i", "l", "e">>
      [] key = "Plan File" -> <<"P", "l", "a", "n", " ", "F", "i", "l", "e">>
      [] key = "Flow File" -> <<"F", "l", "o", "w", " ", "F", "i", "l", "e">>
      [] key = "Proj Title" -> <<"P", "r", "o", "j", " ", "T", "i", "t", "l", "e">>
      [] key = "Current Plan" -> <<"C", "u", "r", "r", "e", "n", "t", " ", "P", "l", "a", "n">>
      [] key = "Other" -> <<"D", "S", "S", " ", "F", "i", "l", "e">>

\* the text of a line: f"<key>=<letter>{number:02d}\n" for a reference line
LineText(line) ==
    IF line.key \in RefKeys \cup {"Flow File"}
    THEN KeyChars(line.key) \o <<"=", Letter(line.key)>> \o Fmt02(line.num) \o <<"\n">>
    ELSE IF line.key = "Proj Title" THEN KeyChars(line.key) \o <<"=", "X", "\n">>
    ELSE IF line.key = "Current Plan" THEN KeyChars(line.key) \o <<"=", "p", "0", "1", "\n">>
    ELSE KeyChars(line.key) \o <<"=", "d", "s", "s", "\n">>

\* the text of a file, its last line with or without the newline
Text(lines, newline) ==
    [i \in 1..Len(lines) |->
        IF i = Len(lines) /\ ~newline
        THEN SubSeq(LineText(lines[i]), 1, Len(LineText(lines[i])) - 1)
        ELSE LineText(lines[i])]

\* file.writelines(lines), as readlines() returns the file afterwards: a
\* line that does not end in a newline runs into the line after it
RECURSIVE AsRead(_)
AsRead(lines) ==
    IF Len(lines) <= 1 THEN lines
    ELSE IF Len(lines[1]) > 0 /\ lines[1][Len(lines[1])] = "\n"
         THEN <<lines[1]>> \o AsRead(Tail(lines))
         ELSE AsRead(<<lines[1] \o lines[2]>> \o SubSeq(lines, 3, Len(lines)))

\* the index (from 0) at which lines.insert put the new line
InsertionPoint(before, after) ==
    CHOOSE i \in 0..Len(before) : after = ListInsert(before, i, after[i + 1])

\* the file after lines.insert(...) and file.writelines(lines), or the file
\* as it was when the operation raised before writing
TextAfter(text, before, after) ==
    IF after = before THEN text
    ELSE LET i == InsertionPoint(before, after)
         IN  AsRead(ListInsert(text, i, LineText(after[i + 1])))

-----------------------------------------------------------------------------
(* The project folder *)

\* a resource file <project>.<ext>, or its sidecar <project>.<ext>.hdf
File(ext, hdf, shortid) == [ext |-> ext, hdf |-> hdf, shortid |-> shortid]

IsFile(fs, ext, hdf) == \E f \in fs : f.ext = ext /\ f.hdf = hdf

FileAt(fs, ext, hdf) == CHOOSE f \in fs : f.ext = ext /\ f.hdf = hdf

\* shutil.copyfile(src, dst): dst is created or overwritten with src's content
CopyFile(fs, src, srchdf, dst, dsthdf) ==
    {f \in fs : ~(f.ext = dst /\ f.hdf = dsthdf)}
    \cup {File(dst, dsthdf, FileAt(fs, src, srchdf).shortid)}

Raised(op, err) == [op |-> op, status |-> err, value |-> <<>>]

Returned(op, value) == [op |-> op, status |-> "ok", value |-> value]

-----------------------------------------------------------------------------
(* copy_geometry_from_template *)

\* the walk over the sorted numbers: next_number grows while it meets itself
RECURSIVE FirstGapFrom(_, _, _)
FirstGapFrom(sorted, i, next_number) ==
    IF i > Len(sorted) THEN next_number
    ELSE IF sorted[i] = next_number
         THEN FirstGapFrom(sorted, i + 1, next_number + 1)
         ELSE next_number

\* a variant that takes the number after the largest one
GeomNextNumberAfterLast(lines) ==
    LET existing == MatchedNumbers(lines, "Geom File")
    IN  IF Len(existing) > 0 THEN SeqMax(existing) + 1 ELSE 1

\* existing_numbers of the geometry lines, sorted, and the first free number
GeomNextNumber(lines) ==
    LET existing == MatchedNumbers(lines, "Geom File")
    IN  IF Len(existing) > 0
        THEN FirstGapFrom(SortSeq(existing, LAMBDA a, b : a < b), 1, 1)
        ELSE 1

\* insertion_index: the first geometry line whose number is not less than
\* next_number, counted from 0; -1 stands for None
GeomInsertionIndex(lines, next_number) ==
    LET hits == {i \in MatchIndices(lines, "Geom File") : ~(lines[i].num < next_number)}
    IN  IF hits = {} THEN -1
        ELSE (CHOOSE i \in hits : \A j \in hits : i <= j) - 1

\* the lines with the new geometry line inserted
GeomInsert(lines, next_number) ==
    LET new_geom_line == RefLine("Geom File", next_number)
        insertion_index == GeomInsertionIndex(lines, next_number)
        header_indices == {i \in 1..Len(lines) : lines[i].key \in HeaderKeys}
        last_header_index ==
            (CHOOSE i \in header_indices : \A j \in header_indices : j <= i) - 1
    IN  IF insertion_index # -1
        THEN ListInsert(lines, insertion_index, new_geom_line)
        ELSE IF header_indices # {}
             THEN ListInsert(lines, last_header_index + 2, new_geom_line)
             ELSE ListInsert(lines, 0, new_geom_line)

\* a variant that looks for the .hdf sidecar only when it copies it
CopyGeometryLateSidecarCheck(template_geom) ==
    /\ ncopies < MaxCopies
    /\ ncopies' = ncopies + 1
    /\ prjBefore' = prj
    /\ IF ~IsFile(files, template_geom, FALSE)
       THEN /\ ret' = Raised("copy_geometry", "FileNotFoundError")
            /\ UNCHANGED <<prj, files>>
       ELSE LET next_number == GeomNextNumber(prj)
                new_geom == <<"g">> \o Fmt02(next_number)
                copied == CopyFile(files, template_geom, FALSE, new_geom, FALSE)
            IN  IF new_geom = template_geom
                THEN /\ ret' = Raised("copy_geometry", "SameFileError")
                     /\ UNCHANGED <<prj, files>>
                ELSE IF ~IsFile(files, template_geom, TRUE)
                THEN /\ ret' = Raised("copy_geometry", "FileNotFoundError")
                     /\ files' = copied
                     /\ UNCHANGED prj
                ELSE /\ files' = CopyFile(copied, template_geom, TRUE, new_geom, TRUE)
                     /\ prj' = GeomInsert(prj, next_number)
                     /\ ret' = Returned("copy_geometry", new_geom)
    /\ ptextBefore' = ptext
    /\ ptext' = TextAfter(ptext, prj, prj')
    /\ UNCHANGED <<allocVars, planVars, codecVars, runVars>>

CopyGeometry(template_geom) ==
    /\ ncopies < MaxCopies
    /\ ncopies' = ncopies + 1
    /\ prjBefore' = prj
    /\ IF ~IsFile(files, template_geom, FALSE) \/ ~IsFile(files, template_geom, TRUE)
       THEN /\ ret' = Raised("copy_geometry", "FileNotFoundError")
            /\ UNCHANGED <<prj, files>>
       ELSE LET next_number == GeomNextNumber(prj)
                new_geom == <<"g">> \o Fmt02(next_number)
            IN  IF new_geom = template_geom
                THEN /\ ret' = Raised("copy_geometry", "SameFileError")
                     /\ UNCHANGED <<prj, files>>
                ELSE /\ files' = CopyFile(CopyFile(files, template_geom, FALSE,
                                                   new_geom, FALSE),
                                          template_geom, TRUE, new_geom, TRUE)
                     /\ prj' = GeomInsert(prj, next_number)
                     /\ ret' = Returned("copy_geometry", new_geom)
    /\ ptextBefore' = ptext
    /\ ptext' = TextAfter(ptext, prj, prj')
    /\ UNCHANGED <<allocVars, planVars, codecVars, runVars>>

-----------------------------------------------------------------------------
(* copy_unsteady_from_template *)

UnsteadyNextNumber(lines) ==
    LET existing == MatchedNumbers(lines, "Unsteady File")
    IN  IF Len(existing) > 0 THEN SeqMax(existing) + 1 ELSE 1

\* insertion_index: the first unsteady line whose number is greater than
\* next_number, counted from 0; -1 stands for None
UnsteadyInsertionIndex(lines, next_number) ==
    LET hits == {i \in MatchIndices(lines, "Unsteady File") : lines[i].num > next_number}
    IN  IF hits = {} THEN -1
        ELSE (CHOOSE i \in hits : \A j \in hits : i <= j) - 1

UnsteadyInsert(lines, next_number) ==
    LET new_unsteady_line == RefLine("Unsteady File", next_number)
        insertion_index == UnsteadyInsertionIndex(lines, next_number)
        matched == MatchIndices(lines, "Unsteady File")
        last_unsteady_index ==
            IF matched = {} THEN -1
            ELSE (CHOOSE i \in matched : \A j \in matched : j <= i) - 1
    IN  IF insertion_index # -1
        THEN ListInsert(lines, insertion_index, new_unsteady_line)
        ELSE IF last_unsteady_index # -1
             THEN ListInsert(lines, last_unsteady_index + 1, new_unsteady_line)
             ELSE Append(lines, new_unsteady_line)

CopyUnsteady(template_unsteady) ==
    /\ ncopies < MaxCopies
    /\ ncopies' = ncopies + 1
    /\ prjBefore' = prj
    /\ IF ~IsFile(files, template_unsteady, FALSE)
       THEN /\ ret' = Raised("copy_unsteady", "FileNotFoundError")
            /\ UNCHANGED <<prj, files>>
       ELSE LET next_number == UnsteadyNextNumber(prj)
                new_unsteady == <<"u">> \o Fmt02(next_number)
                copied == CopyFile(files, template_unsteady, FALSE, new_unsteady, FALSE)
            IN  IF new_unsteady = template_unsteady
                THEN /\ ret' = Raised("copy_unsteady", "SameFileError")
                     /\ UNCHANGED <<prj, files>>
                ELSE /\ files' = IF IsFile(files, template_unsteady, TRUE)
                                 THEN CopyFile(copied, template_unsteady, TRUE,
                                               new_unsteady, TRUE)
                                 ELSE copied
                     /\ prj' = UnsteadyInsert(prj, next_number)
                     /\ ret' = Returned("copy_unsteady", new_unsteady)
    /\ ptextBefore' = ptext
    /\ ptext' = TextAfter(ptext, prj, prj')
    /\ UNCHANGED <<allocVars, planVars, codecVars, runVars>>

-----------------------------------------------------------------------------
(* copy_plan_from_template *)

\* a variant that fills the first gap, as copy_geometry_from_template does
PlanNextNumberGapFill(lines) ==
    LET existing == FindallPlanNumbers(lines)
    IN  IF Len(existing) > 0
        THEN FirstGapFrom(SortSeq(existing, LAMBDA a, b : a < b), 1, 1)
        ELSE 1

\* a variant that takes the highest number in use
PlanNextNumberLast(lines) ==
    LET existing == FindallPlanNumbers(lines)
    IN  IF Len(existing) > 0 THEN SeqMax(existing) ELSE 1

PlanNextNumber(lines) ==
    LET existing == FindallPlanNumbers(lines)
    IN  IF Len(existing) > 0 THEN SeqMax(existing) + 1 ELSE 1

\* insertion_index: the first plan line whose number is greater than
\* next_number, counted from 0; -1 stands for None
PlanInsertionIndex(lines, next_number) ==
    LET hits == {i \in MatchIndices(lines, "Plan File") : lines[i].num > next_number}
    IN  IF hits = {} THEN -1
        ELSE (CHOOSE i \in hits : \A j \in hits : i <= j) - 1

\* a variant that always appends the new line at the end of the document
PlanInsertAtEnd(lines, next_number) ==
    Append(lines, RefLine("Plan File", next_number))

PlanInsert(lines, next_number) ==
    LET new_plan_line == RefLine("Plan File", next_number)
        insertion_index == PlanInsertionIndex(lines, next_number)
        matched == MatchIndices(lines, "Plan File")
        last_plan_index ==
            IF matched = {} THEN -1
            ELSE (CHOOSE i \in matched : \A j \in matched : j <= i) - 1
    IN  IF insertion_index # -1
        THEN ListInsert(lines, insertion_index, new_plan_line)
        ELSE IF last_plan_index # -1
             THEN ListInsert(lines, last_plan_index + 1, new_plan_line)
             ELSE Append(lines, new_plan_line)

\* (new_plan_shortid or (current_shortid + "_copy"))[:24]
NewShortId(new_plan_shortid, current_shortid) ==
    LET chosen == IF Len(new_plan_shortid) > 0 THEN new_plan_shortid
                  ELSE current_shortid \o <<"_", "c", "o", "p", "y">>
    IN  SubSeq(chosen, 1, IF Len(chosen) < ShortIdMax THEN Len(chosen) ELSE ShortIdMax)

CopyPlan(template_plan, new_plan_shortid) ==
    /\ ncopies < MaxCopies
    /\ ncopies' = ncopies + 1
    /\ prjBefore' = prj
    /\ LET next_number == PlanNextNumber(prj)
           new_plan == <<"p">> \o Fmt02(next_number)
       IN  IF ~IsFile(files, template_plan, FALSE)
           THEN /\ ret' = Raised("copy_plan", "FileNotFoundError")
                /\ UNCHANGED <<prj, files>>
           ELSE IF new_plan = template_plan
           THEN /\ ret' = Raised("copy_plan", "SameFileError")
                /\ UNCHANGED <<prj, files>>
           ELSE /\ files' =
                     {f \in files : ~(f.ext = new_plan /\ ~f.hdf)}
                     \cup {File(new_plan, FALSE,
                                NewShortId(new_plan_shortid,
                                           FileAt(files, template_plan, FALSE).shortid))}
                /\ prj' = PlanInsert(prj, next_number)
                /\ ret' = Returned("copy_plan", new_plan)
    /\ ptextBefore' = ptext
    /\ ptext' = TextAfter(ptext, prj, prj')
    /\ UNCHANGED <<allocVars, planVars, codecVars, runVars>>

-----------------------------------------------------------------------------
(* get_next_available_number *)

\* num[1:].isdigit() for text of the ASCII characters the model uses
IsDigitString(s) == Len(s) > 0 /\ \A i \in 1..Len(s) : IsDigit(s[i])

\* set(int(num[1:]) for num in existing_numbers if num[1:].isdigit())
ExistingSet(existing) ==
    {IntOfDigits(Tail(existing[i])) :
        i \in {j \in 1..Len(existing) :
                  Len(existing[j]) > 0 /\ IsDigitString(Tail(existing[j]))}}

\* next_num = 1; while next_num in existing_set: next_num += 1
RECURSIVE FirstNotIn(_, _)
FirstNotIn(existing_set, next_num) ==
    IF next_num \in existing_set THEN FirstNotIn(existing_set, next_num + 1)
    ELSE next_num

\* a variant that takes the number after the highest one
NextAvailableAfterMax(existing) ==
    LET existing_set == ExistingSet(existing)
    IN  Fmt02(IF existing_set = {} THEN 1
              ELSE (CHOOSE m \in existing_set : \A k \in existing_set : k <= m) + 1)

get_next_available_number(existing) == Fmt02(FirstNotIn(ExistingSet(existing), 1))

GetNextAvailableNumber ==
    /\ next_available = <<>>
    /\ next_available' = get_next_available_number(existing_numbers)
    /\ UNCHANGED <<existing_numbers, regVars, planVars, codecVars, runVars>>

-----------------------------------------------------------------------------
(* set_num_cores *)
(* A line of a plan file is a record [key, val]: the text "<key>= <val>"   *)
(* of a core-count setting with val >= 0 written in decimal digits, or any *)
(* other line (key "Other").                                                *)

CoreKeys == {"UNET D1 Cores", "UNET D2 Cores", "PS Cores"}

\* re.compile(r"(<key>= )\d+").sub(rf"\g<1>{value}", content)
SubCores(content, key, value) ==
    [i \in DOMAIN content |->
        IF content[i].key = key THEN [content[i] EXCEPT !.val = value]
        ELSE content[i]]

\* d2_cores_pattern.search(new_content): the first match, 0 for None
SearchCores(content, key) ==
    LET hits == {i \in DOMAIN content : content[i].key = key}
    IN  IF hits = {} THEN 0 ELSE CHOOSE i \in hits : \A j \in hits : i <= j

\* a variant without the two-core rule
SetCoresAllEqual(content, n) ==
    SubCores(SubCores(SubCores(content, "UNET D2 Cores", n), "UNET D1 Cores", n),
             "PS Cores", n)

\* new_content of set_num_cores
SetCores(content, n) ==
    LET new_content == SubCores(content, "UNET D2 Cores", n)
        d2_match == SearchCores(new_content, "UNET D2 Cores")
    IN  IF d2_match # 0 /\ new_content[d2_match].val = 2
        THEN SubCores(SubCores(new_content, "UNET D1 Cores", 1), "PS Cores", 1)
        ELSE SubCores(SubCores(new_content, "UNET D1 Cores", n), "PS Cores", n)

SetNumCores(n) ==
    /\ planBefore' = plan
    /\ num_cores' = n
    /\ plan' = SetCores(plan, n)
    /\ UNCHANGED <<regVars, allocVars, codecVars, runVars>>

-----------------------------------------------------------------------------
(* The fixed-width table codec: text *)
(* A line of an unsteady flow file is the sequence of its characters, the  *)
(* newline that ends it included, as file.readlines() returns it.  A       *)
(* numeric value is an exact fraction [n, d] (n / d, d a power of ten),    *)
(* which is exact for the decimal fields and the factors the model uses.   *)

\* values per line of a table
PerLine == 10
\* characters per value
FieldWidth == 8

Whitespace == {" ", "\n"}

\* str.strip()
RECURSIVE LStrip(_)
LStrip(s) == IF Len(s) > 0 /\ s[1] \in Whitespace THEN LStrip(Tail(s)) ELSE s

RECURSIVE RStrip(_)
RStrip(s) ==
    IF Len(s) > 0 /\ s[Len(s)] \in Whitespace THEN RStrip(SubSeq(s, 1, Len(s) - 1))
    ELSE s

Strip(s) == LStrip(RStrip(s))

\* pattern in line
Contains(line, pattern) ==
    \E i \in 1..(Len(line) - Len(pattern) + 1) :
        SubSeq(line, i, i + Len(pattern) - 1) = pattern

\* the positions of "=" in s, and s.split('=')[k] for k = 0, 1
EqualsAt(s) == {i \in 1..Len(s) : s[i] = "="}

NthEquals(s, k) ==
    IF Cardinality(EqualsAt(s)) < k THEN Len(s) + 1
    ELSE CHOOSE i \in EqualsAt(s) : Cardinality({j \in EqualsAt(s) : j < i}) = k - 1

SplitEquals0(s) == SubSeq(s, 1, NthEquals(s, 1) - 1)

SplitEquals1(s) == SubSeq(s, NthEquals(s, 1) + 1, NthEquals(s, 2) - 1)

\* whether int(text) succeeds: digits, after an optional sign, between blanks
IsIntText(text) ==
    LET t == Strip(text)
        u == IF Len(t) > 0 /\ t[1] \in {"-", "+"} THEN Tail(t) ELSE t
    IN  IsDigitString(u)

IntOfText(text) ==
    LET t == Strip(text)
    IN  IF t[1] = "-" THEN 0 - IntOfDigits(Tail(t))
        ELSE IF t[1] = "+" THEN IntOfDigits(Tail(t))
        ELSE IntOfDigits(t)

RECURSIVE Pow10(_)
Pow10(k) == IF k = 0 THEN 1 ELSE 10 * Pow10(k - 1)

\* a fraction with the trailing zeros of its decimals removed
RECURSIVE Reduced(_)
Reduced(v) ==
    IF v.d > 1 /\ v.n % 10 = 0 THEN Reduced([n |-> v.n \div 10, d |-> v.d \div 10])
    ELSE v

\* whether float(value) succeeds, for text of digits, signs, points, letters
\* and blanks: [sign] digits [. digits] or [sign] . digits
IsFloatText(value) ==
    LET u == IF Len(value) > 0 /\ value[1] \in {"-", "+"} THEN Tail(value) ELSE value
        dots == {i \in 1..Len(u) : u[i] = "."}
    IN  /\ Cardinality(dots) <= 1
        /\ Len(u) > Cardinality(dots)
        /\ \A i \in 1..Len(u) : i \notin dots => IsDigit(u[i])

\* float(value)
FloatOfText(value) ==
    LET neg == value[1] = "-"
        u == IF value[1] \in {"-", "+"} THEN Tail(value) ELSE value
        dots == {i \in 1..Len(u) : u[i] = "."}
        dot == IF dots = {} THEN Len(u) + 1 ELSE CHOOSE i \in dots : TRUE
        digits == SubSeq(u, 1, dot - 1) \o SubSeq(u, dot + 1, Len(u))
        mag == IntOfDigits(digits)
        frac == IF dots = {} THEN 0 ELSE Len(u) - dot
    IN  Reduced([n |-> IF neg THEN 0 - mag ELSE mag, d |-> Pow10(frac)])

\* f'{value:8d}'
FormatField(value) ==
    LET text == IF value < 0 THEN <<"-">> \o Decimal(0 - value) ELSE Decimal(value)
    IN  IF Len(text) >= FieldWidth THEN text
        ELSE [i \in 1..(FieldWidth - Len(text)) |-> " "] \o text

-----------------------------------------------------------------------------
(* identify_tables *)

FlowHydrograph == <<"F", "l", "o", "w", " ", "H", "y", "d", "r", "o", "g", "r", "a", "p", "h", "=">>

StageHydrograph == <<"S", "t", "a", "g", "e", " ", "H", "y", "d", "r", "o", "g", "r", "a", "p", "h", "=">>

table_types ==
    {FlowHydrograph, <<"G", "a", "t", "e", " ", "O", "p", "e", "n", "i", "n", "g", "s", "=">>,
     StageHydrograph,
     <<"U", "n", "i", "f", "o", "r", "m", " ", "L", "a", "t", "e", "r", "a", "l", " ", "I", "n", "f", "l", "o", "w", "=">>,
     <<"L", "a", "t", "e", "r", "a", "l", " ", "I", "n", "f", "l", "o", "w", " ", "H", "y", "d", "r", "o", "g", "r", "a", "p", "h", "=">>}

IsDeclaration(line) == \E table_type \in table_types : Contains(line, table_type)

\* int(line.strip().split('=')[1]) raises ValueError on some declaration line
IdentifyRaises(lines) ==
    \E i \in 1..Len(lines) :
        IsDeclaration(lines[i]) /\ ~IsIntText(SplitEquals1(Strip(lines[i])))

\* the list of (table_name, start_line, end_line), line indices from 0:
\* a table is closed at i-1 by the declaration on line i that follows it,
\* the last table by its own count
identify_tables(lines) ==
    LET decls == {i \in 1..Len(lines) : IsDeclaration(lines[i])}
        nth(k) == CHOOSE i \in decls : Cardinality({j \in decls : j < i}) = k - 1
        name(i) == SplitEquals0(Strip(lines[i])) \o <<"=">>
        num_values(i) == IntOfText(SplitEquals1(Strip(lines[i])))
    IN  [k \in 1..Cardinality(decls) |->
            IF k < Cardinality(decls)
            THEN [name |-> name(nth(k)), start |-> nth(k), end |-> (nth(k + 1) - 1) - 1]
            ELSE [name |-> name(nth(k)), start |-> nth(k),
                  end |-> nth(k) + ((num_values(nth(k)) + 9) \div 10)]]

-----------------------------------------------------------------------------
(* parse_fixed_width_table, extract_tables *)

Min(a, b) == IF a < b THEN a ELSE b

\* the factor 1.0
One == [n |-> 1, d |-> 1]

\* no Series
None == [none |-> TRUE, values |-> <<>>]

\* lines[start:end] for start, end >= 0
Slice(lines, start, end) == SubSeq(lines, start + 1, Min(end, Len(lines)))

\* a variant that leaves the blanks around each field
FieldsOfUntrimmed(line) ==
    [k \in 1..((Len(line) + FieldWidth - 1) \div FieldWidth) |->
        SubSeq(line, (k - 1) * FieldWidth + 1, Min(k * FieldWidth, Len(line)))]

\* [line[i:i+8].strip() for i in range(0, len(line), 8)]
FieldsOf(line) ==
    [k \in 1..((Len(line) + FieldWidth - 1) \div FieldWidth) |->
        Strip(SubSeq(line, (k - 1) * FieldWidth + 1, Min(k * FieldWidth, Len(line))))]

\* parsed_values of one line: the fields float() accepts, in order
RECURSIVE ParsedValues(_)
ParsedValues(values) ==
    IF Len(values) = 0 THEN <<>>
    ELSE ParsedValues(SubSeq(values, 1, Len(values) - 1))
         \o (IF Len(values[Len(values)]) > 0 /\ IsFloatText(values[Len(values)])
             THEN <<FloatOfText(values[Len(values)])>> ELSE <<>>)

\* data, over the lines of the slice
RECURSIVE ParseLines(_)
ParseLines(slice) ==
    IF Len(slice) = 0 THEN <<>>
    ELSE ParseLines(SubSeq(slice, 1, Len(slice) - 1))
         \o ParsedValues(FieldsOf(slice[Len(slice)]))

\* the column 'Value' of the DataFrame: float64 values
parse_fixed_width_table(lines, start, end) ==
    [dtype |-> "float", values |-> ParseLines(Slice(lines, start, end))]

\* extracted_tables: a later table replaces an earlier one of the same name
extract_tables(lines) ==
    LET found == identify_tables(lines)
        names == {found[k].name : k \in 1..Len(found)}
        last(name) == CHOOSE k \in 1..Len(found) :
                          /\ found[k].name = name
                          /\ \A j \in 1..Len(found) : found[j].name = name => j <= k
    IN  [name \in names |->
            parse_fixed_width_table(lines, found[last(name)].start, found[last(name)].end)]

ExtractTables ==
    /\ cstep.pc = "start"
    /\ IF IdentifyRaises(ulines)
       THEN /\ cstep' = [pc |-> "ValueError", k |-> 0, factor |-> One]
            /\ UNCHANGED <<tables, extents>>
       ELSE /\ extents' = identify_tables(ulines)
            /\ tables' = extract_tables(ulines)
            /\ cstep' = [pc |-> "extracted", k |-> 0, factor |-> One]
    /\ UNCHANGED <<ulines, ulines0, original_values, regVars, allocVars, planVars, runVars>>

-----------------------------------------------------------------------------
(* scale_flow_hydrograph *)

\* numpy's round of the fraction n / d, d > 0: to the nearest integer, a
\* tie to the even one
RoundHalfEven(n, d) ==
    LET q == n \div d
        r == n % d
    IN  IF 2 * r < d THEN q
        ELSE IF 2 * r > d THEN q + 1
        ELSE IF q % 2 = 0 THEN q ELSE q + 1

\* a variant that rounds without scaling
ScaledNotAtAll(v, factor) == [n |-> RoundHalfEven(v.n, v.d), d |-> 1]

\* a variant that truncates toward minus infinity
ScaledFloor(v, factor) == [n |-> (v.n * factor.n) \div (v.d * factor.d), d |-> 1]

\* (value * scale_factor).round().astype(int)
ScaledValue(v, factor) == [n |-> RoundHalfEven(v.n * factor.n, v.d * factor.d), d |-> 1]

ScaleFlowHydrograph(scale_factor) ==
    /\ cstep.pc = "extracted"
    /\ IF FlowHydrograph \notin DOMAIN tables
       THEN /\ original_values' = None
            /\ UNCHANGED tables
       ELSE /\ original_values' = [none |-> FALSE,
                                   values |-> tables[FlowHydrograph].values]
            /\ tables' = [tables EXCEPT ![FlowHydrograph] =
                   [dtype |-> "int",
                    values |-> [i \in 1..Len(tables[FlowHydrograph].values) |->
                                   ScaledValue(tables[FlowHydrograph].values[i],
                                               scale_factor)]]]
    /\ cstep' = [pc |-> "scaled", k |-> 0, factor |-> scale_factor]
    /\ UNCHANGED <<ulines, ulines0, extents, regVars, allocVars, planVars, runVars>>

-----------------------------------------------------------------------------
(* write_table_to_file *)

\* formatted_values: rows of ten values, each in eight characters
FormattedValues(values) ==
    [r \in 1..((Len(values) + PerLine - 1) \div PerLine) |->
        LET row == SubSeq(values, (r - 1) * PerLine + 1, Min(r * PerLine, Len(values)))
            RECURSIVE Join(_)
            Join(k) == IF k = 0 THEN <<>> ELSE Join(k - 1) \o FormatField(row[k].n)
        IN  Join(Len(row)) \o <<"\n">>]

\* lines[start:start+len(new)] = new
SliceAssign(lines, start, new) ==
    SubSeq(lines, 1, Min(start, Len(lines))) \o new
    \o SubSeq(lines, Min(start + Len(new), Len(lines)) + 1, Len(lines))

\* a variant that writes each value left-justified
WriteLeftJustified(lines, values, start_line) ==
    LET row(r) == SubSeq(values, (r - 1) * PerLine + 1, Min(r * PerLine, Len(values)))
        cell(v) == LET t == RStrip(LStrip(FormatField(v.n)))
                   IN  IF Len(t) >= FieldWidth THEN t
                       ELSE t \o [i \in 1..(FieldWidth - Len(t)) |-> " "]
        RECURSIVE JoinRow(_, _)
        JoinRow(rw, k) == IF k = 0 THEN <<>> ELSE JoinRow(rw, k - 1) \o cell(rw[k])
    IN  AsRead(SliceAssign(lines, start_line,
            [r \in 1..((Len(values) + PerLine - 1) \div PerLine) |->
                JoinRow(row(r), Len(row(r))) \o <<"\n">>]))

\* a variant that inserts the rows in front of the old ones
WriteTableInserting(lines, values, start_line) ==
    AsRead(SubSeq(lines, 1, Min(start_line, Len(lines))) \o FormattedValues(values)
           \o SubSeq(lines, Min(start_line, Len(lines)) + 1, Len(lines)))

\* the lines of the file after write_table_to_file
WriteTable(lines, values, start_line) ==
    AsRead(SliceAssign(lines, start_line, FormattedValues(values)))

\* the caller writes the table of the k-th declaration at its start line;
\* the format code 'd' raises ValueError for float64 values
WriteTableToFile(k) ==
    /\ cstep.pc \in {"extracted", "scaled"}
    /\ k \in 1..Len(extents)
    /\ LET df == tables[extents[k].name]
       IN  IF df.dtype = "float" /\ Len(df.values) > 0
           THEN /\ cstep' = [pc |-> "ValueError", k |-> k, factor |-> cstep.factor]
                /\ UNCHANGED ulines
           ELSE /\ ulines' = WriteTable(ulines, df.values, extents[k].start)
                /\ cstep' = [pc |-> "written", k |-> k, factor |-> cstep.factor]
    /\ UNCHANGED <<ulines0, tables, extents, original_values,
                   regVars, allocVars, planVars, runVars>>

-----------------------------------------------------------------------------
(* The registry: initial states and next-state relation *)

\* the numbers the reference lines of an initial project file may carry
InitNums == (1..MaxNum) \cup {MaxSlot}

\* the lines of an initial project file whose reference lines are of one kind
InitLines(key) ==
    {[key |-> "Proj Title", num |-> 0], [key |-> "Other", num |-> 0]}
    \cup [key : {key}, num : InitNums]

\* no two reference lines of a kind carry the same number
DistinctNumbers(lines) ==
    \A i, j \in 1..Len(lines) :
        (i # j /\ lines[i].key \in RefKeys /\ lines[i].key = lines[j].key)
            => lines[i].num # lines[j].num

InitProjects ==
    UNION {{d \in UNION {[1..n -> InitLines(key)] : n \in 0..MaxLines} :
               DistinctNumbers(d)} : key \in RefKeys}

\* the short identifier of the template plan: 21 characters
TemplateShortId == [i \in 1..21 |-> "s"]

Template(letter) == <<letter, "0", "1">>

\* the project folder at the start: no template, the templates alone, or the
\* templates with their .hdf sidecars
InitFolders ==
    {{},
     {File(Template(l), FALSE, IF l = "p" THEN TemplateShortId ELSE <<>>) :
         l \in {"g", "u", "p"}},
     {File(Template(l), FALSE, IF l = "p" THEN TemplateShortId ELSE <<>>) :
         l \in {"g", "u", "p"}}
     \cup {File(Template(l), TRUE, <<>>) : l \in {"g", "u"}}}

NoAlloc == existing_numbers = <<>> /\ next_available = <<>>

NoPlan == plan = <<>> /\ planBefore = <<>> /\ num_cores = -1

NoCodec ==
    /\ ulines = <<>> /\ ulines0 = <<>> /\ tables = <<>> /\ extents = <<>>
    /\ original_values = None /\ cstep = [pc |-> "none", k |-> 0, factor |-> One]

NoRun ==
    /\ max_workers = 0 /\ cores_per_run = 0 /\ project_folder = <<>>
    /\ test_folders = <<>> /\ futures = <<>> /\ results = <<>> /\ rpc = "none"

NoRegistry ==
    /\ prj = <<>> /\ prjBefore = <<>> /\ files = {} /\ ncopies = 0
    /\ ptext = <<>> /\ ptextBefore = <<>>
    /\ ret = [op |-> "none", status |-> "none", value |-> <<>>]

Init ==
    /\ prj \in InitProjects
    /\ prjBefore = prj
    /\ files \in InitFolders
    /\ ret = [op |-> "none", status |-> "none", value |-> <<>>]
    /\ ncopies = 0
    /\ ptext = Text(prj, TRUE)
    /\ ptextBefore = ptext
    /\ NoAlloc /\ NoPlan /\ NoCodec /\ NoRun

Next ==
    \/ CopyGeometry(Template("g"))
    \/ CopyUnsteady(Template("u"))
    \/ \E new_plan_shortid \in {<<>>, <<"N">>} :
           CopyPlan(Template("p"), new_plan_shortid)

Spec == Init /\ [][Next]_vars

-----------------------------------------------------------------------------
(* Properties of the registry *)

\* the numbers of the reference lines of a kind, in file order
RefNumbers(lines, key) == MatchedNumbers(lines, key)

RefNumberSet(lines, key) == {lines[i].num : i \in MatchIndices(lines, key)}

StrictlyAscending(s) == \A i \in 1..(Len(s) - 1) : s[i] < s[i + 1]

Ascending(s) == \A i \in 1..(Len(s) - 1) : s[i] <= s[i + 1]

\* the smallest positive integer that is not in S
SmallestFree(S) ==
    CHOOSE n \in 1..(Cardinality(S) + 1) : n \notin S /\ \A m \in 1..(n - 1) : m \in S

Succeeded(op) == ret.op = op /\ ret.status = "ok"

\* the number in the identifier the last operation returned
RetNumber == IntOfDigits(Tail(ret.value))

\* C1: when the geometry lines of the project file were in strictly
\* ascending order before copy_geometry_from_template, they are in strictly
\* ascending order after it, the new line included.
C1_GeomOrderKept ==
    (Succeeded("copy_geometry") /\ StrictlyAscending(RefNumbers(prjBefore, "Geom File")))
        => StrictlyAscending(RefNumbers(prj, "Geom File"))

\* the position (from 1) the claim C2 gives the new line of a kind
ExpectedPosition(lines, key, n) ==
    LET same == MatchIndices(lines, key)
        greater == {i \in same : lines[i].num > n}
    IN  IF greater # {} THEN CHOOSE i \in greater : \A j \in greater : i <= j
        ELSE IF same # {} THEN (CHOOSE i \in same : \A j \in same : j <= i) + 1
        ELSE Len(lines) + 1

\* after is before with the line x put at position pos, nothing else changed
InsertedAt(before, after, pos, x) ==
    /\ Len(after) = Len(before) + 1
    /\ after[pos] = x
    /\ \A i \in 1..Len(before) : after[IF i < pos THEN i ELSE i + 1] = before[i]

PlacedAsClaimed(op, key) ==
    Succeeded(op) =>
        /\ InsertedAt(prjBefore, prj,
                      ExpectedPosition(prjBefore, key, RetNumber),
                      RefLine(key, RetNumber))
        /\ Ascending(RefNumbers(prjBefore, key)) => Ascending(RefNumbers(prj, key))

C5_UnsteadyGapFill ==
    Succeeded("copy_unsteady") =>
        RetNumber = SmallestFree(RefNumberSet(prjBefore, "Unsteady File"))

\* C6: no copy operation returns, creates a file for, or registers a number
\* outside 01..99.
C6_NumbersWithinRange ==
    /\ \A i \in 1..Len(prj) : prj[i].key \in RefKeys => prj[i].num \in 1..MaxSlot
    /\ \A f \in files : IntOfDigits(Tail(f.ext)) \in 1..MaxSlot
    /\ ret.status = "ok" => RetNumber \in 1..MaxSlot

-----------------------------------------------------------------------------
(* get_next_available_number: inputs and properties *)

\* the input lists have at most this many entries
MaxEntries == 3
\* and use the numbers 1..MaxEntryNum
MaxEntryNum == 4

\* identifiers with a letter prefix, well-formed ("p03") or with a suffix
\* that is not a number ("p", "pxx", "p1a"), and bare numbers ("01", "10")
PrefixedEntries ==
    {<<"p">> \o Fmt02(n) : n \in 1..MaxEntryNum}
    \cup {<<"p">>, <<"p", "x", "x">>, <<"p", "1", "a">>, <<"p", "1", "0">>}

BareEntries == {<<"0", "1">>, <<"0", "2">>, <<"1", "0">>}

\* every number 01..99 in use
FullList == [i \in 1..MaxSlot |-> <<"p">> \o Fmt02(i)]

InitAlloc ==
    /\ existing_numbers \in
           UNION {[1..n -> PrefixedEntries \cup BareEntries] : n \in 0..MaxEntries}
           \cup {FullList}
    /\ next_available = <<>>
    /\ NoRegistry /\ NoPlan /\ NoCodec /\ NoRun

SpecAlloc == InitAlloc /\ [][GetNextAvailableNumber]_vars

LetterPrefixed(existing) ==
    \A i \in 1..Len(existing) : Len(existing[i]) > 0 /\ ~IsDigit(existing[i][1])

\* the numbers of the entries: the value of each numeric suffix
EntryNumbers(existing) ==
    {n \in 1..(MaxSlot + 1) :
        \E i \in 1..Len(existing) :
            /\ IsDigitString(Tail(existing[i]))
            /\ IntOfDigits(Tail(existing[i])) = n}

\* C3: for letter-prefixed identifiers get_next_available_number returns, in
\* two digits with a leading zero where needed, the smallest positive integer
\* that is not the number of any entry; entries whose suffix is not a number
\* are ignored.
C3_GapFillAllocation ==
    (next_available # <<>> /\ LetterPrefixed(existing_numbers)) =>
        LET free == SmallestFree(EntryNumbers(existing_numbers))
        IN  /\ IsDigitString(next_available)
            /\ IntOfDigits(next_available) = free
            /\ Len(next_available) >= 2
            /\ free <= MaxSlot => Len(next_available) = 2

\* C3 witness: a gap below the highest number was filled although the list
\* holds an entry whose suffix is not a number.
C3_Witness ==
    /\ next_available # <<>>
    /\ LetterPrefixed(existing_numbers)
    /\ \E i \in 1..Len(existing_numbers) : ~IsDigitString(Tail(existing_numbers[i]))
    /\ \E n \in EntryNumbers(existing_numbers) : IntOfDigits(next_available) < n

-----------------------------------------------------------------------------
(* set_num_cores: plan files, calls and properties *)

\* initial plan files have at most this many lines
MaxPlanLines == 4
\* their core-count settings are 0..MaxCoreVal
MaxCoreVal == 1
\* set_num_cores is called with 0..MaxCores
MaxCores == 4

PlanLines == [key : CoreKeys, val : 0..MaxCoreVal] \cup {[key |-> "Other", val |-> 0]}

\* each core-count setting occurs at most once
InitPlans ==
    {p \in UNION {[1..n -> PlanLines] : n \in 0..MaxPlanLines} :
        \A i, j \in DOMAIN p : (i # j /\ p[i].key \in CoreKeys) => p[i].key # p[j].key}

InitPlan ==
    /\ plan \in InitPlans
    /\ planBefore = plan
    /\ num_cores = -1
    /\ NoRegistry /\ NoAlloc /\ NoCodec /\ NoRun

NextPlan == \E n \in 0..MaxCores : SetNumCores(n)

SpecPlan == InitPlan /\ [][NextPlan]_vars

HasSetting(content, key) == \E i \in DOMAIN content : content[i].key = key

SettingIs(content, key, value) ==
    \A i \in DOMAIN content : content[i].key = key => content[i].val = value

\* C10: in a plan file with the three settings, after set_num_cores(n) the
\* D2 value is n, the D1 and PS values are 1 when n = 2 and n otherwise,
\* whatever the values were before, and every other line is unchanged.
C10_CoreCountRule ==
    (num_cores >= 0 /\ \A key \in CoreKeys : HasSetting(planBefore, key)) =>
        /\ SettingIs(plan, "UNET D2 Cores", num_cores)
        /\ SettingIs(plan, "UNET D1 Cores", IF num_cores = 2 THEN 1 ELSE num_cores)
        /\ SettingIs(plan, "PS Cores", IF num_cores = 2 THEN 1 ELSE num_cores)
        /\ Len(plan) = Len(planBefore)
        /\ \A i \in DOMAIN plan :
               /\ plan[i].key = planBefore[i].key
               /\ plan[i].key \notin CoreKeys => plan[i] = planBefore[i]

\* C10 witness: set_num_cores(4) on a plan file that set_num_cores(2) left
\* at D2 = 2, D1 = 1, PS = 1, with another line in it.
C10_Witness ==
    /\ num_cores = 4
    /\ HasSetting(planBefore, "Other")
    /\ \A key \in CoreKeys : HasSetting(planBefore, key)
    /\ SettingIs(planBefore, "UNET D2 Cores", 2)
    /\ SettingIs(planBefore, "UNET D1 Cores", 1)
    /\ SettingIs(planBefore, "PS Cores", 1)
    /\ \A key \in CoreKeys : SettingIs(plan, key, 4)

-----------------------------------------------------------------------------
(* The codec: unsteady flow files, calls and properties *)

\* the largest declared count of a table
MaxCount == 23
\* at most this many tables follow the first one
MaxExtra == 2
\* at most this many Key=Value lines follow each table
MaxGap == 1

Counts == {1, PerLine, PerLine + 1, MaxCount}

\* pairs of fields a table alternates: integers as write_table_to_file
\* writes them, integers that fill the field, decimals, integers written
\* otherwise, a blank field, a field that is no number
Fills ==
    {<<<<" ", " ", " ", " ", " ", " ", "1", "2">>, <<" ", " ", " ", " ", "-", "3", "4", "5">>>>,
     <<<<"1", "2", "3", "4", "5", "6", "7", "8">>, <<"-", "9", "9", "9", "9", "9", "9", "9">>>>,
     <<<<"9", "9", "9", "9", "9", "9", "9", "9">>, <<" ", " ", " ", " ", " ", " ", " ", "7">>>>,
     <<<<" ", " ", " ", " ", "1", "2", ".", "5">>, <<" ", " ", " ", " ", " ", "2", ".", "5">>>>,
     <<<<" ", " ", " ", " ", " ", "0", "1", "2">>, <<" ", " ", " ", "1", "0", "0", ".", "0">>>>,
     <<<<"7", " ", " ", " ", " ", " ", " ", " ">>, <<" ", " ", " ", " ", " ", " ", "1", "2">>>>,
     <<<<" ", " ", " ", " ", " ", " ", "1", "2">>, <<" ", " ", " ", " ", " ", " ", " ", " ">>>>,
     <<<<" ", " ", " ", " ", " ", "a", "b", "c">>, <<" ", " ", " ", " ", " ", " ", "1", "2">>>>}

CanonicalFill == <<<<" ", " ", " ", " ", " ", " ", "1", "2">>, <<" ", " ", " ", " ", "-", "3", "4", "5">>>>

TitleLine == <<"F", "l", "o", "w", " ", "T", "i", "t", "l", "e", "=", "t", "\n">>

GapLine == <<"U", "s", "e", " ", "D", "S", "S", "=", "F", "a", "l", "s", "e", "\n">>

\* the content lines of a table of count fields, ten to a line
DataLines(count, fill) ==
    [r \in 1..((count + PerLine - 1) \div PerLine) |->
        LET fields == Min(PerLine, count - (r - 1) * PerLine)
        IN  [c \in 1..(fields * FieldWidth) |->
                fill[2 - (((r - 1) * PerLine + ((c - 1) \div FieldWidth) + 1) % 2)]
                    [((c - 1) % FieldWidth) + 1]] \o <<"\n">>]

\* a declaration, its content lines and the lines that follow them
TableBlock(name, count_text, count, fill, gap) ==
    <<name \o <<" ">> \o count_text \o <<"\n">>>>
    \o DataLines(count, fill) \o [i \in 1..gap |-> GapLine]

RECURSIVE Repeat(_, _)
Repeat(block, n) == IF n = 0 THEN <<>> ELSE block \o Repeat(block, n - 1)

\* the file, with or without the newline that ends its last line
WithEnd(lines, newline) ==
    IF newline THEN lines
    ELSE [lines EXCEPT ![Len(lines)] = SubSeq(lines[Len(lines)], 1,
                                              Len(lines[Len(lines)]) - 1)]

InitFiles ==
    {WithEnd(<<TitleLine>>
             \o TableBlock(name, IF count = 0 THEN <<"x">> ELSE Decimal(count),
                           count, fill, gap)
             \o Repeat(TableBlock(extra_name, Decimal(PerLine + 1), PerLine + 1,
                                  CanonicalFill, gap), extra),
             newline) :
        name \in {FlowHydrograph, StageHydrograph},
        count \in Counts \cup {0},
        fill \in Fills,
        gap \in 0..MaxGap,
        extra_name \in {FlowHydrograph, StageHydrograph},
        extra \in 0..MaxExtra,
        newline \in BOOLEAN}

Factors == {One, [n |-> 2, d |-> 1], [n |-> 1, d |-> 2]}

InitCodec ==
    /\ ulines \in InitFiles
    /\ ulines0 = ulines
    /\ tables = <<>>
    /\ extents = <<>>
    /\ original_values = None
    /\ cstep = [pc |-> "start", k |-> 0, factor |-> One]
    /\ NoRegistry /\ NoAlloc /\ NoPlan /\ NoRun

NextCodec ==
    \/ ExtractTables
    \/ \E scale_factor \in Factors : ScaleFlowHydrograph(scale_factor)
    \/ \E k \in 1..(MaxExtra + 1) : WriteTableToFile(k)

SpecCodec == InitCodec /\ [][NextCodec]_vars

\* the count on the declaration line above the k-th table
DeclaredCount(k) == IntOfText(SplitEquals1(Strip(ulines0[extents[k].start])))

LinesFor(count) == (count + PerLine - 1) \div PerLine

\* the content lines of the k-th table as its declaration counts them
OwnLines(k) ==
    SubSeq(ulines0, extents[k].start + 1, extents[k].start + LinesFor(DeclaredCount(k)))

\* C7: every tuple (name, start, end) identify_tables returns starts on the
\* line after a declaration and spans ceil(declaredCount / 10) lines.
C7_TableExtent ==
    \A k \in 1..Len(extents) :
        /\ IsDeclaration(ulines0[extents[k].start])
        /\ extents[k].end - extents[k].start = LinesFor(DeclaredCount(k))

\* the values held under the k-th table's name were decoded from its lines
DecodedOwnLines(k) ==
    \A j \in 1..Len(extents) : extents[j].name = extents[k].name => j <= k

\* the 8-character fields of a content line, untrimmed
RawFields(line) ==
    LET body == IF Len(line) > 0 /\ line[Len(line)] = "\n"
                THEN SubSeq(line, 1, Len(line) - 1) ELSE line
    IN  [f \in 1..((Len(body) + FieldWidth - 1) \div FieldWidth) |->
            SubSeq(body, (f - 1) * FieldWidth + 1, Min(f * FieldWidth, Len(body)))]

FieldCount(lines) ==
    LET RECURSIVE Sum(_)
        Sum(i) == IF i = 0 THEN 0 ELSE Sum(i - 1) + Len(RawFields(lines[i]))
    IN  Sum(Len(lines))

\* all declaredCount fields of the k-th table are numbers
WellFormedTable(k) ==
    /\ FieldCount(OwnLines(k)) = DeclaredCount(k)
    /\ \A i \in 1..Len(OwnLines(k)) :
           \A f \in 1..Len(RawFields(OwnLines(k)[i])) :
               /\ Len(Strip(RawFields(OwnLines(k)[i])[f])) > 0
               /\ IsFloatText(Strip(RawFields(OwnLines(k)[i])[f]))

\* an integer right-justified in eight characters, without a plus sign, a
\* leading zero or a minus zero
CanonicalField(field) ==
    LET t == LStrip(field)
        u == IF Len(t) > 0 /\ t[1] = "-" THEN Tail(t) ELSE t
    IN  /\ Len(field) = FieldWidth
        /\ IsDigitString(u)
        /\ u[1] = "0" => (Len(u) = 1 /\ t = u)

\* all declaredCount fields of the k-th table are canonical and each of its
\* lines ends in a newline
CanonicalTable(k) ==
    /\ FieldCount(OwnLines(k)) = DeclaredCount(k)
    /\ \A i \in 1..Len(OwnLines(k)) :
           /\ OwnLines(k)[i][Len(OwnLines(k)[i])] = "\n"
           /\ \A f \in 1..Len(RawFields(OwnLines(k)[i])) :
                  CanonicalField(RawFields(OwnLines(k)[i])[f])

RoundTripDone(k) ==
    /\ cstep.pc = "written" /\ cstep.k = k /\ cstep.factor = One
    /\ DecodedOwnLines(k)

\* C8 as stated: decode, scale by 1.0 and re-encode at the same start line
\* reproduce the lines of a table whose fields are all well-formed numbers.
C8_RoundTripWellFormed ==
    \A k \in 1..Len(extents) :
        (RoundTripDone(k) /\ WellFormedTable(k)) => ulines = ulines0

\* C8 amended: decode, scale by 1.0 and re-encode at the same start line
\* reproduce the file byte for byte when all fields of the table are
\* integers right-justified in eight characters and each of its lines ends
\* in a newline.
C8_RoundTripCanonical ==
    \A k \in 1..Len(extents) :
        (RoundTripDone(k) /\ CanonicalTable(k)) => ulines = ulines0

\* C8 witness: a canonical table of 23 values on 3 lines went through the
\* round trip.
C8_Witness ==
    \E k \in 1..Len(extents) :
        /\ RoundTripDone(k) /\ CanonicalTable(k)
        /\ DeclaredCount(k) = MaxCount /\ Len(OwnLines(k)) >= 3
        /\ ulines = ulines0

\* the lines write_table_to_file wrote for the values
WrittenLines ==
    LET start == extents[cstep.k].start
        values == tables[extents[cstep.k].name].values
    IN  SubSeq(ulines, start + 1, start + LinesFor(Len(values)))

\* C9: every line write_table_to_file writes holds at most ten fields of
\* exactly eight characters, and decoding the written lines returns the
\* written values in order.
C9_EncodeDecode ==
    cstep.pc = "written" =>
        /\ \A i \in 1..Len(WrittenLines) :
               /\ WrittenLines[i][Len(WrittenLines[i])] = "\n"
               /\ (Len(WrittenLines[i]) - 1) % FieldWidth = 0
               /\ Len(WrittenLines[i]) - 1 <= PerLine * FieldWidth
        /\ ParseLines(WrittenLines) = tables[extents[cstep.k].name].values

\* the same, for values that fit eight characters
C9_EncodeDecodeFitting ==
    (/\ cstep.pc = "written"
     /\ \A i \in 1..Len(tables[extents[cstep.k].name].values) :
            Len(FormatField(tables[extents[cstep.k].name].values[i].n)) = FieldWidth)
        => C9_EncodeDecode

-----------------------------------------------------------------------------
(* get_geom_entries, get_unsteady_entries, apply_geometry_to_plan,          *)
(* apply_unsteady_to_plan                                                   *)
(* A line of the plan file these operations work on is a record [key, val]: *)
(* the text "<key>=<letter><val>" and a newline for the keys "Geom File"    *)
(* (letter g) and "Flow File" (letter u), val being the text that follows   *)
(* the letter, or any other line (key "Other").                             *)

\* line.startswith(prefix)
StartsWith(line, prefix) ==
    /\ Len(line) >= Len(prefix)
    /\ SubSeq(line, 1, Len(prefix)) = prefix

\* line.split('=')[1].strip()[1:]
EntryOf(line) ==
    LET v == Strip(SplitEquals1(line))
    IN  IF Len(v) = 0 THEN <<>> ELSE Tail(v)

\* a variant that lists the lines of every kind
GetEntriesOfAnyKind(lines, key) ==
    [i \in 1..Len(lines) |-> EntryOf(lines[i])]

\* the column of the DataFrame: the entry of each line of the project file
\* that starts with "<key>=", in file order
RECURSIVE GetEntries(_, _)
GetEntries(lines, key) ==
    IF Len(lines) = 0 THEN <<>>
    ELSE GetEntries(SubSeq(lines, 1, Len(lines) - 1), key)
         \o (IF StartsWith(lines[Len(lines)], KeyChars(key) \o <<"=">>)
             THEN <<EntryOf(lines[Len(lines)])>> ELSE <<>>)

\* a variant that rewrites the first matching line only
ApplyToFirstLine(lines, key, number) ==
    LET hits == {i \in 1..Len(lines) : lines[i].key = key}
    IN  [i \in 1..Len(lines) |->
            IF i \in hits /\ \A j \in hits : i <= j
            THEN [key |-> key, val |-> number] ELSE lines[i]]

\* the lines written back: f"<key>=<letter>{number}\n" for each line that
\* starts with "<key>=<letter>", the line itself otherwise
ApplyToPlan(lines, key, number) ==
    [i \in 1..Len(lines) |->
        IF lines[i].key = key THEN [key |-> key, val |-> number] ELSE lines[i]]

\* both operations; ret.value records the number the call was made with.
\* An empty DataFrame has no column: entries[...] raises KeyError
Apply(op, prj_key, plan_key, number) ==
    /\ planBefore' = plan
    /\ prjBefore' = prj
    /\ LET entries == GetEntries(ptext, prj_key)
       IN  IF Len(entries) = 0
           THEN /\ ret' = [op |-> op, status |-> "KeyError", value |-> number]
                /\ UNCHANGED plan
           ELSE IF \A i \in 1..Len(entries) : entries[i] # number
           THEN /\ ret' = [op |-> op, status |-> "ValueError", value |-> number]
                /\ UNCHANGED plan
           ELSE /\ plan' = ApplyToPlan(plan, plan_key, number)
                /\ ret' = [op |-> op, status |-> "ok", value |-> number]
    /\ ptextBefore' = ptext
    /\ UNCHANGED <<prj, files, ncopies, ptext, num_cores, allocVars, codecVars, runVars>>

ApplyGeometryToPlan(geometry_number) ==
    Apply("apply_geometry", "Geom File", "Geom File", geometry_number)

ApplyUnsteadyToPlan(unsteady_number) ==
    Apply("apply_unsteady", "Unsteady File", "Flow File", unsteady_number)

\* the project files the operations validate against
ApplyProjects ==
    {<<>>,
     <<RefLine("Unsteady File", 1)>>,
     <<[key |-> "Proj Title", num |-> 0], RefLine("Geom File", 1),
       RefLine("Geom File", 2), RefLine("Unsteady File", 1)>>,
     <<RefLine("Geom File", 2), RefLine("Unsteady File", 1),
       RefLine("Unsteady File", 3)>>}

\* the plan files they rewrite
ApplyPlans ==
    {<<[key |-> "Other", val |-> <<>>],
       [key |-> "Geom File", val |-> <<"0", "1">>],
       [key |-> "Flow File", val |-> <<"0", "1">>],
       [key |-> "Other", val |-> <<>>]>>,
     <<[key |-> "Geom File", val |-> <<"0", "1">>],
       [key |-> "Other", val |-> <<>>],
       [key |-> "Geom File", val |-> <<"0", "2">>],
       [key |-> "Flow File", val |-> <<"0", "1">>],
       [key |-> "Flow File", val |-> <<"0", "2">>]>>}

\* the numbers the caller passes, besides what a copy just returned
ApplyNumbers == {<<"0", "1">>, <<"0", "3">>, <<"g", "0", "1">>, <<"u", "0", "1">>}

InitApply ==
    /\ prj \in ApplyProjects
    /\ prjBefore = prj
    /\ files = {File(Template(l), FALSE, <<>>) : l \in {"g", "u"}}
               \cup {File(Template(l), TRUE, <<>>) : l \in {"g", "u"}}
    /\ ret = [op |-> "none", status |-> "none", value |-> <<>>]
    /\ ncopies = 0
    /\ ptext = Text(prj, TRUE)
    /\ ptextBefore = ptext
    /\ plan \in ApplyPlans
    /\ planBefore = plan
    /\ num_cores = -1
    /\ NoAlloc /\ NoCodec /\ NoRun

NextApply ==
    \/ CopyGeometry(Template("g"))
    \/ CopyUnsteady(Template("u"))
    \/ \E number \in ApplyNumbers \cup {ret.value} : ApplyGeometryToPlan(number)
    \/ \E number \in ApplyNumbers \cup {ret.value} : ApplyUnsteadyToPlan(number)

SpecApply == InitApply /\ [][NextApply]_vars

\* the identifier "<letter><number>" or the bare number names a reference
\* line of the kind
Registered(lines, key, number) ==
    \E i \in 1..Len(lines) :
        /\ lines[i].key = key
        /\ number \in {Fmt02(lines[i].num), <<Letter(key)>> \o Fmt02(lines[i].num)}

Failed(op) == ret.op = op /\ ret.status \notin {"ok", "none"}

\* C11: apply_geometry_to_plan (apply_unsteady_to_plan) called with an ID
\* that no geometry (unsteady) line of the project file carries fails, and
\* after a failed call the plan file and the project file are as before.
C11_ValidationBeforeWrite ==
    /\ (ret.op = "apply_geometry" /\ ~Registered(prj, "Geom File", ret.value))
           => Failed("apply_geometry")
    /\ (ret.op = "apply_unsteady" /\ ~Registered(prj, "Unsteady File", ret.value))
           => Failed("apply_unsteady")
    /\ (Failed("apply_geometry") \/ Failed("apply_unsteady"))
           => (plan = planBefore /\ prj = prjBefore)

\* C11 witness: apply_geometry_to_plan was refused a number that an unsteady
\* line carries and no geometry line does, the plan file having geometry
\* lines.
C11_Witness ==
    /\ Failed("apply_geometry")
    /\ ~Registered(prj, "Geom File", ret.value)
    /\ Registered(prj, "Unsteady File", ret.value)
    /\ \E i \in 1..Len(plan) : plan[i].key = "Geom File"

\* the identifier a copy operation returns for a slot the project file holds
\* and the folder has a file for
ReturnedByCopy(key, id) ==
    \E i \in 1..Len(prj) :
        /\ prj[i].key = key
        /\ id = <<Letter(key)>> \o Fmt02(prj[i].num)
        /\ IsFile(files, id, FALSE)
        /\ id # Template(Letter(key))

\* the text of the reference lines of the plan file after "<key>="
ReferenceTexts(lines, key, letter) ==
    {<<letter>> \o lines[i].val : i \in {j \in 1..Len(lines) : lines[j].key = key}}

\* C13: the identifier copy_geometry_from_template (copy_unsteady_from_
\* template) returned, passed unchanged to apply_geometry_to_plan
\* (apply_unsteady_to_plan) with the same project file, is accepted, and the
\* reference lines of the plan file then read "Geom File=<id>"
\* ("Flow File=<id>").
C13_CopyThenApply ==
    /\ (ret.op = "apply_geometry" /\ ReturnedByCopy("Geom File", ret.value)) =>
           /\ ret.status = "ok"
           /\ ReferenceTexts(plan, "Geom File", "g") \subseteq {ret.value}
    /\ (ret.op = "apply_unsteady" /\ ReturnedByCopy("Unsteady File", ret.value)) =>
           /\ ret.status = "ok"
           /\ ReferenceTexts(plan, "Flow File", "u") \subseteq {ret.value}

\* a call that was accepted
Applied(op) == ret.op = op /\ ret.status = "ok"

\* every line of a kind references the number, every other line is as before
RewrittenFor(before, after, key, number) ==
    /\ Len(after) = Len(before)
    /\ \A i \in 1..Len(before) :
           IF before[i].key = key
           THEN after[i] = [key |-> key, val |-> number]
           ELSE after[i] = before[i]

\* C15: an accepted apply_geometry_to_plan (apply_unsteady_to_plan) makes
\* every "Geom File=g" ("Flow File=u") line of the plan file reference the
\* number, leaves every other line as it was and where it was, and applied
\* again with the same number leaves the plan file as it is.
C15_ApplyFrame ==
    /\ Applied("apply_geometry") =>
           /\ RewrittenFor(planBefore, plan, "Geom File", ret.value)
           /\ ApplyToPlan(plan, "Geom File", ret.value) = plan
    /\ Applied("apply_unsteady") =>
           /\ RewrittenFor(planBefore, plan, "Flow File", ret.value)
           /\ ApplyToPlan(plan, "Flow File", ret.value) = plan

\* C15 witness: the same number was applied a second time to a plan file
\* with two geometry lines and other lines, after a first application that
\* changed it.
C15_Witness ==
    /\ Applied("apply_geometry")
    /\ Cardinality({i \in 1..Len(plan) : plan[i].key = "Geom File"}) >= 2
    /\ \E i \in 1..Len(plan) : plan[i].key \notin {"Geom File"}
    /\ plan = planBefore
    /\ plan \notin ApplyPlans

-----------------------------------------------------------------------------
(* update_geompre_flags *)
(* A line of the plan file is a record [key, val, fmt]: a setting           *)
(* "<key>=<val>" with its newline, written as the program writes it         *)
(* ("<key>= <val> ", fmt "spaced") or without the blanks (fmt "plain"), or  *)
(* any other line (key "Other").                                            *)

FlagKeys == {"Run HTab", "UNET Use Existing IB Tables"}

\* a variant that validates run_htab_value only
FirstFlagRejected(run_htab_value, use_ib_tables_value) ==
    run_htab_value \notin {-1, 0}

\* one of the two checks raises ValueError
FlagsRejected(run_htab_value, use_ib_tables_value) ==
    \/ run_htab_value \notin {-1, 0}
    \/ use_ib_tables_value \notin {-1, 0}

\* updated_lines
UpdatedLines(lines, run_htab_value, use_ib_tables_value) ==
    [i \in 1..Len(lines) |->
        IF lines[i].key = "Run HTab"
        THEN [key |-> "Run HTab", val |-> run_htab_value, fmt |-> "spaced"]
        ELSE IF lines[i].key = "UNET Use Existing IB Tables"
        THEN [key |-> "UNET Use Existing IB Tables", val |-> use_ib_tables_value,
              fmt |-> "spaced"]
        ELSE lines[i]]

\* ret.value records the two values the call was made with
UpdateGeompreFlags(run_htab_value, use_ib_tables_value) ==
    /\ planBefore' = plan
    /\ IF FlagsRejected(run_htab_value, use_ib_tables_value)
       THEN /\ ret' = [op |-> "update_geompre_flags", status |-> "ValueError",
                       value |-> <<run_htab_value, use_ib_tables_value>>]
            /\ UNCHANGED plan
       ELSE /\ plan' = UpdatedLines(plan, run_htab_value, use_ib_tables_value)
            /\ ret' = [op |-> "update_geompre_flags", status |-> "ok",
                       value |-> <<run_htab_value, use_ib_tables_value>>]
    /\ UNCHANGED <<prj, prjBefore, files, ncopies, ptext, ptextBefore, num_cores,
                   allocVars, codecVars, runVars>>

\* the plan files the operation is called on
FlagPlans ==
    {<<>>,
     <<[key |-> "Other", val |-> 0, fmt |-> "plain"],
       [key |-> "Run HTab", val |-> -1, fmt |-> "plain"],
       [key |-> "UNET Use Existing IB Tables", val |-> 0, fmt |-> "spaced"]>>,
     <<[key |-> "UNET Use Existing IB Tables", val |-> -1, fmt |-> "plain"],
       [key |-> "Other", val |-> 0, fmt |-> "plain"],
       [key |-> "Run HTab", val |-> 0, fmt |-> "spaced"],
       [key |-> "Run HTab", val |-> -1, fmt |-> "plain"]>>}

\* the values the caller passes
FlagValues == {-2, -1, 0, 1, 5}

InitFlags ==
    /\ plan \in FlagPlans
    /\ planBefore = plan
    /\ num_cores = -1
    /\ NoRegistry /\ NoAlloc /\ NoCodec /\ NoRun

NextFlags ==
    \E run_htab_value, use_ib_tables_value \in FlagValues :
        UpdateGeompreFlags(run_htab_value, use_ib_tables_value)

SpecFlags == InitFlags /\ [][NextFlags]_vars

\* C12: update_geompre_flags raises ValueError whenever either value is
\* outside {0, -1}, and the plan file is then as it was before the call.
C12_FlagValidation ==
    (/\ ret.op = "update_geompre_flags"
     /\ (ret.value[1] \notin {0, -1} \/ ret.value[2] \notin {0, -1}))
        => (ret.status = "ValueError" /\ plan = planBefore)

\* C12 witness: the call (-1, 5), whose second value alone is bad, was
\* refused on a plan file that holds both settings and that an earlier call
\* had rewritten.
C12_Witness ==
    /\ ret.op = "update_geompre_flags"
    /\ ret.value = <<-1, 5>>
    /\ ret.status = "ValueError"
    /\ \A key \in FlagKeys : \E i \in 1..Len(plan) : plan[i].key = key
    /\ plan \notin FlagPlans

-----------------------------------------------------------------------------
(* Properties of the copy operations: failures and frame *)

\* the template file of the operation, or the sidecar it requires, is absent
TemplateMissing(op) ==
    CASE op = "copy_geometry" ->
             \/ ~IsFile(files, Template("g"), FALSE)
             \/ ~IsFile(files, Template("g"), TRUE)
      [] op = "copy_unsteady" -> ~IsFile(files, Template("u"), FALSE)
      [] op = "copy_plan" -> ~IsFile(files, Template("p"), FALSE)

\* C14: a copy operation whose template file (for geometry: the file or its
\* .hdf sidecar) is absent raises FileNotFoundError, and a copy operation
\* that raises FileNotFoundError has created no file and left the project
\* file unchanged.
C14_MissingTemplate ==
    [][\A op \in {"copy_geometry", "copy_unsteady", "copy_plan"} :
          (ncopies' = ncopies + 1 /\ ret'.op = op) =>
              /\ TemplateMissing(op) => ret'.status = "FileNotFoundError"
              /\ ret'.status = "FileNotFoundError" => (files' = files /\ prj' = prj)]_vars

\* C14 witness: copy_geometry_from_template failed for the missing sidecar
\* of a template that exists, after another copy had succeeded.
C14_Witness ==
    /\ ret.op = "copy_geometry" /\ ret.status = "FileNotFoundError"
    /\ IsFile(files, Template("g"), FALSE)
    /\ ~IsFile(files, Template("g"), TRUE)
    /\ ncopies = 2
    /\ Len(prj) > 0
    /\ \E f \in files : f.ext \notin {Template("g"), Template("u"), Template("p")}

\* the kind of reference line a copy operation adds
KeyOf(op) ==
    CASE op = "copy_geometry" -> "Geom File"
      [] op = "copy_unsteady" -> "Unsteady File"
      [] op = "copy_plan" -> "Plan File"

CopyOps == {"copy_geometry", "copy_unsteady", "copy_plan"}

\* C16: after any sequence of copy operations no two reference lines of a
\* kind carry the same number, and the number a copy returned was carried by
\* no line of its kind before the call.
C16_UniqueSlots ==
    /\ DistinctNumbers(prj)
    /\ \A op \in CopyOps :
           Succeeded(op) => RetNumber \notin RefNumberSet(prjBefore, KeyOf(op))

\* C16 witness: two copies of one kind succeeded one after the other on a
\* project file that had a line of that kind.
C16_Witness ==
    \E op \in CopyOps :
        /\ Succeeded(op)
        /\ ncopies = 2
        /\ Cardinality(RefNumberSet(prj, KeyOf(op))) >= 3
        /\ Cardinality(RefNumberSet(prjBefore, KeyOf(op))) = 2

-----------------------------------------------------------------------------
(* copy_geometry_from_template on project files with header lines *)

\* a geometry template that no line of the project file references
SpareTemplate == <<"g", "0", "5">>

HeaderLines ==
    {[key |-> "Proj Title", num |-> 0], [key |-> "Current Plan", num |-> 0],
     [key |-> "Other", num |-> 0], RefLine("Plan File", 1), RefLine("Geom File", 2)}

InitHeader ==
    /\ prj \in UNION {[1..n -> HeaderLines] : n \in 0..(MaxLines + 1)}
    /\ DistinctNumbers(prj)
    /\ prjBefore = prj
    /\ files = {File(SpareTemplate, FALSE, <<>>), File(SpareTemplate, TRUE, <<>>)}
    /\ ret = [op |-> "none", status |-> "none", value |-> <<>>]
    /\ ncopies = 0
    /\ ptext = Text(prj, TRUE)
    /\ ptextBefore = ptext
    /\ NoAlloc /\ NoPlan /\ NoCodec /\ NoRun

SpecHeader == InitHeader /\ [][CopyGeometry(SpareTemplate)]_vars

\* the position (from 1) of the last header line, 0 without one
LastHeader(lines) ==
    LET headers == {i \in 1..Len(lines) : lines[i].key \in HeaderKeys}
    IN  IF headers = {} THEN 0 ELSE CHOOSE i \in headers : \A j \in headers : j <= i

\* C17: in a project file without geometry lines copy_geometry_from_template
\* puts the new line immediately after the last header line, or first in the
\* document when there is no header line.
C17_HeaderFallback ==
    (Succeeded("copy_geometry") /\ MatchIndices(prjBefore, "Geom File") = {}) =>
        InsertedAt(prjBefore, prj, LastHeader(prjBefore) + 1,
                   RefLine("Geom File", RetNumber))

-----------------------------------------------------------------------------
(* Properties of scale_flow_hydrograph and write_table_to_file *)

\* the tables as extract_tables returned them
Extracted == extract_tables(ulines0)

Abs(x) == IF x < 0 THEN 0 - x ELSE x

\* r is an integer nearest to v * factor
NearestTo(r, v, factor) ==
    /\ r.d = 1
    /\ 2 * Abs(v.n * factor.n - r.n * v.d * factor.d) <= v.d * factor.d

RowsWritten == LinesFor(Len(tables[extents[cstep.k].name].values))

-----------------------------------------------------------------------------
(* The copy operations on a project file whose last line may lack its      *)
(* newline                                                                  *)

\* the records are what the patterns read from the file
WellFormedProject == ptext \in {Text(prj, TRUE), Text(prj, FALSE)}

InitText ==
    /\ prj \in InitProjects
    /\ prjBefore = prj
    /\ files \in InitFolders
    /\ ret = [op |-> "none", status |-> "none", value |-> <<>>]
    /\ ncopies = 0
    /\ \E newline \in BOOLEAN : ptext = Text(prj, newline)
    /\ ptextBefore = ptext
    /\ NoAlloc /\ NoPlan /\ NoCodec /\ NoRun

NextText ==
    \/ WellFormedProject /\ CopyGeometry(Template("g"))
    \/ WellFormedProject /\ CopyUnsteady(Template("u"))
    \/ \E new_plan_shortid \in {<<>>, <<"N">>} :
           WellFormedProject /\ CopyPlan(Template("p"), new_plan_shortid)

SpecText == InitText /\ [][NextText]_vars

\* C20: after a copy operation succeeds, whether or not the last line of
\* the project file ended in a newline, reading the file again gives every
\* line it had and exactly one new reference line, and the entries of that
\* kind are the entries it had and the new identifier, once.
C20_CopyKeepsContent ==
    \A op \in CopyOps :
        Succeeded(op) =>
            /\ \E pos \in 1..Len(ptext) :
                   InsertedAt(ptextBefore, ptext, pos,
                              LineText(RefLine(KeyOf(op), RetNumber)))
            /\ \E pos \in 1..Len(GetEntries(ptext, KeyOf(op))) :
                   InsertedAt(GetEntries(ptextBefore, KeyOf(op)),
                              GetEntries(ptext, KeyOf(op)), pos, Tail(ret.value))

-----------------------------------------------------------------------------
(* The number copy_geometry_from_template allocates *)

\* C22: for every project file, the number copy_geometry_from_template
\* computes is the smallest positive integer that no geometry line carries,
\* in whatever order the geometry lines stand; a successful copy returns
\* and registers that number.
C22_GeomGapFill ==
    /\ GeomNextNumber(prj) = SmallestFree(RefNumberSet(prj, "Geom File"))
    /\ Succeeded("copy_geometry") =>
           /\ RetNumber = SmallestFree(RefNumberSet(prjBefore, "Geom File"))
           /\ RefNumberSet(prj, "Geom File")
                  = RefNumberSet(prjBefore, "Geom File") \cup {RetNumber}

\* a copy filled a gap below geometry lines that stood in descending order
C22_Witness ==
    /\ Succeeded("copy_geometry")
    /\ ~Ascending(RefNumbers(prjBefore, "Geom File"))
    /\ \E n \in RefNumberSet(prjBefore, "Geom File") : RetNumber < n

-----------------------------------------------------------------------------
(* get_plan_entries, get_flow_entries, get_unsteady_entries,                *)
(* get_geom_entries and get_next_available_number on their result           *)

EntryOps ==
    {"get_plan_entries", "get_flow_entries", "get_unsteady_entries", "get_geom_entries"}

EntryKey(op) ==
    CASE op = "get_plan_entries" -> "Plan File"
      [] op = "get_flow_entries" -> "Flow File"
      [] op = "get_unsteady_entries" -> "Unsteady File"
      [] op = "get_geom_entries" -> "Geom File"

\* the column of the DataFrame the operation returns
GetEntriesOf(op) ==
    /\ ret.op = "none"
    /\ existing_numbers' = GetEntries(ptext, EntryKey(op))
    /\ ret' = [op |-> op, status |-> "ok", value |-> <<>>]
    /\ UNCHANGED <<prj, prjBefore, files, ncopies, ptext, ptextBefore,
                   next_available, planVars, codecVars, runVars>>

\* project files have at most this many lines
MaxEnumLines == 2

\* the numbers their reference lines carry
EnumNumbers == {1, 10, 12}

EnumLines ==
    {RefLine(EntryKey(op), n) : op \in EntryOps, n \in EnumNumbers}
    \cup {[key |-> "Other", num |-> 0]}

InitEnum ==
    /\ prj \in {d \in UNION {[1..n -> EnumLines] : n \in 0..MaxEnumLines} :
                    DistinctNumbers(d)}
    /\ prjBefore = prj
    /\ ptext = Text(prj, TRUE)
    /\ ptextBefore = ptext
    /\ files = {}
    /\ ncopies = 0
    /\ ret = [op |-> "none", status |-> "none", value |-> <<>>]
    /\ NoAlloc /\ NoPlan /\ NoCodec /\ NoRun

NextEnum ==
    \/ \E op \in EntryOps : GetEntriesOf(op)
    \/ ret.op \in EntryOps /\ GetNextAvailableNumber

SpecEnum == InitEnum /\ [][NextEnum]_vars

\* the numbers the entries of a list stand for
ListedNumbers(entries) == {IntOfDigits(entries[i]) : i \in 1..Len(entries)}

\* C23: get_next_available_number, given the list an entries operation
\* returned for a project file, returns in two digits the smallest positive
\* number that is not in the list, also when the list holds numbers of 10
\* or more.
C23_EntriesFeedAllocation ==
    (ret.op \in EntryOps /\ next_available # <<>>) =>
        next_available = Fmt02(SmallestFree(ListedNumbers(existing_numbers)))

-----------------------------------------------------------------------------
(* The error apply_geometry_to_plan and apply_unsteady_to_plan raise *)

\* C24: for every project file, also one without any reference line of the
\* kind, apply_geometry_to_plan (apply_unsteady_to_plan) called with an ID
\* that no geometry (unsteady) line carries raises ValueError and no other
\* error.
C24_UnknownResourceError ==
    /\ (ret.op = "apply_geometry" /\ ~Registered(prj, "Geom File", ret.value))
           => ret.status = "ValueError"
    /\ (ret.op = "apply_unsteady" /\ ~Registered(prj, "Unsteady File", ret.value))
           => ret.status = "ValueError"

-----------------------------------------------------------------------------
(* The values parse_fixed_width_table returns *)

\* the fields of the lines of an extent: <<l, p>> is the p-th run of
\* FieldWidth characters of the l-th line
CellsOf(slice) ==
    {c \in (1..Len(slice)) \X (1..(PerLine + 2)) :
        (c[2] - 1) * FieldWidth < Len(slice[c[1]])}

CellText(slice, c) ==
    Strip([i \in 1..Min(FieldWidth, Len(slice[c[1]]) - (c[2] - 1) * FieldWidth) |->
              slice[c[1]][(c[2] - 1) * FieldWidth + i]])

\* the fields that hold a number
NumberCells(slice) ==
    {c \in CellsOf(slice) : Len(CellText(slice, c)) > 0 /\ IsFloatText(CellText(slice, c))}

\* line order, then field order
CellBefore(c, d) == c[1] < d[1] \/ (c[1] = d[1] /\ c[2] < d[2])

\* C25: for the lines of each extent found, parse_fixed_width_table returns the
\* values of the trimmed 8-character fields that hold a number, in line
\* order and then field order, and nothing else: blank fields and fields
\* that are no number are left out, so there are never more values than
\* fields.
C25_ParseFixedWidth ==
    cstep.pc = "extracted" =>
        \A k \in 1..Len(extents) :
            LET e == extents[k]
                slice == Slice(ulines, e.start, e.end)
                parsed == parse_fixed_width_table(ulines, e.start, e.end).values
                cells == NumberCells(slice)
            IN  /\ Len(parsed) = Cardinality(cells)
                /\ Len(parsed) <= Cardinality(CellsOf(slice))
                /\ \A c \in cells :
                       parsed[1 + Cardinality({d \in cells : CellBefore(d, c)})]
                           = FloatOfText(CellText(slice, c))

\* a table was extracted with fewer values than it declares, fields that
\* are no number having been left out between fields that are
C25_Witness ==
    /\ cstep.pc = "extracted"
    /\ LET k == Len(extents)
           slice == Slice(ulines, extents[k].start, extents[k].end)
       IN  /\ \E c \in CellsOf(slice) \ NumberCells(slice) : Len(CellText(slice, c)) > 0
           /\ \E c \in NumberCells(slice) :
                  \E d \in CellsOf(slice) \ NumberCells(slice) : CellBefore(d, c)
           /\ Len(tables[extents[k].name].values) < DeclaredCount(k)
           /\ Len(tables[extents[k].name].values) > 0

-----------------------------------------------------------------------------
(* The tables extract_tables returns *)

DistinctNames ==
    \A j, k \in 1..Len(extents) : extents[j].name = extents[k].name => j = k

\* C26: when every table of the file has a name of its own and consists of
\* ceil(declaredCount / 10) lines of well-formed fields, extract_tables
\* returns for every table, the last one or not, exactly its declaredCount
\* values in file order, whether the next declaration follows at once or
\* Key=Value lines stand in between.
C26_AllTablesExtracted ==
    (/\ cstep.pc = "extracted"
     /\ DistinctNames
     /\ \A k \in 1..Len(extents) : WellFormedTable(k))
        => \A k \in 1..Len(extents) :
               /\ Len(tables[extents[k].name].values) = DeclaredCount(k)
               /\ tables[extents[k].name].values = ParseLines(OwnLines(k))

\* C30: extract_tables returns one table for each declaration
\* identify_tables found, also when several tables of the file have the
\* same name: the dictionary has as many entries as the file has
\* declarations.
C30_OneTablePerDeclaration ==
    cstep.pc = "extracted" => Cardinality(DOMAIN tables) = Len(extents)

-----------------------------------------------------------------------------
(* run_plans_parallel *)
(* The rows of ras_plan_entries are numbered from 1; row i has the plan    *)
(* number f"{i:02d}" and the plan file project_folder[i], a record         *)
(* [exists, content] whose content is a sequence of lines as set_num_cores *)
(* reads them.  A test folder is a copy of project_folder.  futures[i] is  *)
(* the run of row i: its state ("queued", "solving" while the solver       *)
(* process runs, "done", "raised", "collected" once the caller has its     *)
(* result), the test folder it was given, the plan file the solver was     *)
(* started on and the solver's exit status.                                *)

\* at most this many workers
MaxWorkers == 2
\* at most this many rows in ras_plan_entries
MaxPlans == 3

NoFile == [exists |-> FALSE, content |-> <<>>]

PlanFile(d1, d2, ps) ==
    [exists |-> TRUE,
     content |-> <<[key |-> "UNET D1 Cores", val |-> d1],
                   [key |-> "UNET D2 Cores", val |-> d2],
                   [key |-> "PS Cores", val |-> ps]>>]

\* the plan files of a project folder: none at the path, one as written
\* for a single core, one as set_num_cores(2) leaves it
RunFiles == {NoFile, PlanFile(1, 1, 1), PlanFile(1, 2, 1)}

RunCores == {2, 4}

\* test_folders[i % max_workers], rows and folders counted from 1
FolderOf(i) == ((i - 1) % max_workers) + 1

\* the rows whose solver process has been started and has not exited
Solving == {i \in 1..Len(futures) : futures[i].state = "solving"}

\* a variant in which a worker is always free
AlwaysIdleWorker == TRUE

\* ThreadPoolExecutor(max_workers=max_workers): a thread is free to take
\* the next submitted call
IdleWorker == Cardinality(Solving) < max_workers

\* the copies of the project folder and the submitted calls;
\* ThreadPoolExecutor raises ValueError for max_workers <= 0
Submit ==
    /\ rpc = "start"
    /\ IF max_workers <= 0
       THEN /\ rpc' = "ValueError"
            /\ UNCHANGED <<test_folders, futures>>
       ELSE /\ test_folders' = [w \in 1..max_workers |-> project_folder]
            /\ futures' = [i \in 1..Len(project_folder) |->
                              [state |-> "queued", folder |-> FolderOf(i),
                               executed |-> NoFile, returncode |-> 0]]
            /\ rpc' = "pool"
    /\ UNCHANGED <<max_workers, cores_per_run, project_folder, results,
                   regVars, allocVars, planVars, codecVars>>

\* run_single_plan up to the start of the solver process: a free thread
\* takes the first queued call, set_num_cores rewrites the plan file at
\* full_path, and the solver is started on new_full_path in the test folder
RunSinglePlan(i) ==
    /\ rpc \in {"pool", "exiting"}
    /\ futures[i].state = "queued"
    /\ \A j \in 1..(i - 1) : futures[j].state # "queued"
    /\ IdleWorker
    /\ IF ~project_folder[i].exists
       THEN /\ futures' = [futures EXCEPT ![i].state = "raised"]
            /\ UNCHANGED project_folder
       ELSE /\ project_folder' =
                   [project_folder EXCEPT
                       ![i].content = SetCores(@, cores_per_run)]
            /\ futures' = [futures EXCEPT
                              ![i].state = "solving",
                              ![i].executed = test_folders[futures[i].folder][i]]
    /\ UNCHANGED <<max_workers, cores_per_run, test_folders, results, rpc,
                   regVars, allocVars, planVars, codecVars>>

\* the solver process exits; subprocess.run raises CalledProcessError for
\* a status other than zero and run_single_plan returns False
SolverExit(i, returncode) ==
    /\ futures[i].state = "solving"
    /\ futures' = [futures EXCEPT ![i].state = "done", ![i].returncode = returncode]
    /\ UNCHANGED <<max_workers, cores_per_run, project_folder, test_folders,
                   results, rpc, regVars, allocVars, planVars, codecVars>>

\* one turn of the loop over as_completed: future.result() returns the
\* pair or raises what run_single_plan raised, which leaves the with block
Collect(i) ==
    /\ rpc = "pool"
    /\ futures[i].state \in {"done", "raised"}
    /\ IF futures[i].state = "done"
       THEN /\ results' = [n \in DOMAIN results \cup {Fmt02(i)} |->
                              IF n = Fmt02(i) THEN futures[i].returncode = 0
                              ELSE results[n]]
            /\ futures' = [futures EXCEPT ![i].state = "collected"]
            /\ UNCHANGED rpc
       ELSE /\ rpc' = "exiting"
            /\ UNCHANGED <<results, futures>>
    /\ UNCHANGED <<max_workers, cores_per_run, project_folder, test_folders,
                   regVars, allocVars, planVars, codecVars>>

\* the end of the with block after the loop, the move of the test folders
\* into the final folder and the return of results
Return ==
    /\ rpc = "pool"
    /\ \A i \in 1..Len(futures) : futures[i].state = "collected"
    /\ test_folders' = <<>>
    /\ rpc' = "returned"
    /\ UNCHANGED <<max_workers, cores_per_run, project_folder, futures, results,
                   regVars, allocVars, planVars, codecVars>>

\* the with block left by an exception: the executor waits for every
\* submitted call, then the exception leaves run_plans_parallel
RaiseOut ==
    /\ rpc = "exiting"
    /\ \A i \in 1..Len(futures) : futures[i].state \notin {"queued", "solving"}
    /\ rpc' = "FileNotFoundError"
    /\ UNCHANGED <<max_workers, cores_per_run, project_folder, test_folders,
                   futures, results, regVars, allocVars, planVars, codecVars>>

InitRun ==
    /\ max_workers \in 0..MaxWorkers
    /\ cores_per_run \in RunCores
    /\ project_folder \in UNION {[1..n -> RunFiles] : n \in 0..MaxPlans}
    /\ test_folders = <<>>
    /\ futures = <<>>
    /\ results = <<>>
    /\ rpc = "start"
    /\ NoRegistry /\ NoAlloc /\ NoPlan /\ NoCodec

NextRun ==
    \/ Submit
    \/ \E i \in 1..Len(futures) : RunSinglePlan(i)
    \/ \E i \in 1..Len(futures) : \E returncode \in {0, 1} : SolverExit(i, returncode)
    \/ \E i \in 1..Len(futures) : Collect(i)
    \/ Return
    \/ RaiseOut

SpecRun == InitRun /\ [][NextRun]_vars

-----------------------------------------------------------------------------
(* Properties of run_plans_parallel *)

PlanNumbers == {Fmt02(i) : i \in 1..Len(project_folder)}

Ended == rpc \in {"returned", "FileNotFoundError"}

\* C21: once every solver process has exited, run_plans_parallel returns a
\* dictionary with exactly one entry for each row of ras_plan_entries, True
\* for the rows whose solver exited with status zero and False for the
\* others; a row whose solver failed or whose plan file could not be
\* prepared does not keep the results of the other rows from being
\* returned.
C21_ResultsForEveryPlan ==
    Ended =>
        /\ rpc = "returned"
        /\ DOMAIN results = PlanNumbers
        /\ \A i \in 1..Len(futures) :
               results[Fmt02(i)]
                   <=> (futures[i].state = "collected" /\ futures[i].returncode = 0)

\* C27: at every moment at most max_workers solver processes have been
\* started and have not exited.
C27_AtMostMaxWorkers == Cardinality(Solving) <= max_workers

\* two solver processes run while a third row waits for a worker
C27_Witness ==
    /\ max_workers >= 2
    /\ Cardinality(Solving) = max_workers
    /\ \E i \in 1..Len(futures) : futures[i].state = "queued"

Started(i) == futures[i].state \in {"solving", "done", "collected"}

\* C28: the plan file a solver process is started on, the copy in its
\* test folder, has its core-count settings as set_num_cores(cores_per_run)
\* leaves them: D2 is cores_per_run, D1 and PS are 1 when cores_per_run is
\* 2 and cores_per_run otherwise.
C28_CoresSetBeforeStart ==
    \A i \in 1..Len(futures) :
        Started(i) =>
            /\ futures[i].executed.exists
            /\ SettingIs(futures[i].executed.content, "UNET D2 Cores", cores_per_run)
            /\ SettingIs(futures[i].executed.content, "UNET D1 Cores",
                         IF cores_per_run = 2 THEN 1 ELSE cores_per_run)
            /\ SettingIs(futures[i].executed.content, "PS Cores",
                         IF cores_per_run = 2 THEN 1 ELSE cores_per_run)

\* C29: no two solver processes that run at the same time use the same
\* test folder.
C29_FoldersNotShared ==
    \A i, j \in Solving : futures[i].folder = futures[j].folder => i = j

====
